---- MODULE Spec2Model ----
(***************************************************************************)
(* Model of the monophonic VST synthesizer of src/src/lib.rs: oscillator   *)
(* bank, ADSR envelope, low-pass filter, LFO, the MIDI event bridge, the   *)
(* per-sample render loop and the parameter store.                         *)
(*                                                                         *)
(* Numbers.  Every f32 of the program is modelled as an IEEE-754 binary32  *)
(* value and every + - * / is rounded to nearest-even as the hardware does.*)
(* A float is held as a signed integer: the magnitude is the 31 low bits   *)
(* of the binary32 encoding (exponent field * 2^23 + fraction), the sign   *)
(* of the integer is the sign of the float.  Integer order is then float   *)
(* order, so the comparisons of the source are plain integer comparisons.  *)
(* The only value the encoding cannot tell apart is -0.0 (held as 0).      *)
(***************************************************************************)
EXTENDS Integers, Sequences, FiniteSets, TLC

\* ------------------------------------------------------------------------
\* binary32 arithmetic
\* ------------------------------------------------------------------------
F32Inf == 255 * 8388608        \* 0x7F800000
F32NaN == F32Inf + 4194304     \* 0x7FC00000, the one NaN the model keeps

\* a local binding: v is computed once and named by the parameter of Op
With(v, Op(_)) == Op(v)

Abs(x) == IF x < 0 THEN -x ELSE x
Sgn(x) == IF x < 0 THEN -1 ELSE 1
IsNaN(x) == Abs(x) > F32Inf
IsInf(x) == Abs(x) = F32Inf

Pow2(n) == 2^n

\* number of bits of n (0 for 0), n < 2^31
BitLen4(n) ==
  IF n < 4 THEN (IF n < 2 THEN n ELSE 2) ELSE (IF n < 8 THEN 3 ELSE 4)
BitLen8(n) == IF n < 16 THEN BitLen4(n) ELSE 4 + BitLen4(n \div 16)
BitLen16(n) == IF n < 256 THEN BitLen8(n) ELSE 8 + BitLen8(n \div 256)
BitLen(n) == IF n < 65536 THEN BitLen16(n) ELSE 16 + BitLen16(n \div 65536)

\* significand and exponent of a finite magnitude: value = Mant * 2^Expo
Mant(b) == IF b \div 8388608 = 0 THEN b % 8388608 ELSE 8388608 + (b % 8388608)
Expo(b) == (IF b \div 8388608 = 0 THEN 1 ELSE b \div 8388608) - 150

\* M / 2^s rounded to the nearest integer, ties to even; s >= 1; sticky
\* tells of a non-zero tail below M
RoundShift(M, s, sticky) ==
  With(M \div Pow2(s), LAMBDA q :
  With(M % Pow2(s), LAMBDA r :
    IF r > Pow2(s - 1) \/ (r = Pow2(s - 1) /\ (sticky \/ q % 2 = 1))
    THEN q + 1 ELSE q))

\* Pack with the number s of low bits of M that do not fit
PackAt(M, X, sticky, s) ==
  IF s > 30 THEN 0
  ELSE IF X + s + 149 >= 254 THEN F32Inf
  ELSE IF s <= 0 THEN (X + s + 149) * 8388608 + M * Pow2(-s)
  ELSE With((X + s + 149) * 8388608 + RoundShift(M, s, sticky), LAMBDA bits :
         IF bits >= F32Inf THEN F32Inf ELSE bits)

\* round M * 2^X (plus a non-zero tail below M when sticky) to the nearest
\* binary32 magnitude, ties to even; M > 0
Pack(M, X, sticky) ==
  With(BitLen(M), LAMBDA L :
    PackAt(M, X, sticky, IF L - 24 > -149 - X THEN L - 24 ELSE -149 - X))

\* big + small for finite non-zero values with |big| >= |small|
AddMags(big, small) ==
  With(Expo(Abs(big)) - Expo(Abs(small)), LAMBDA d :
  With(IF d >= 27 THEN 0 ELSE (Mant(Abs(small)) * 8) \div Pow2(d), LAMBDA Ms :
  With(IF d >= 27 THEN TRUE ELSE (Mant(Abs(small)) * 8) % Pow2(d) # 0, LAMBDA st :
    IF Sgn(big) # Sgn(small) /\ Abs(big) = Abs(small) THEN 0
    ELSE Sgn(big) * Pack(IF Sgn(big) = Sgn(small) THEN Mant(Abs(big)) * 8 + Ms
                         ELSE IF st THEN Mant(Abs(big)) * 8 - Ms - 1
                         ELSE Mant(Abs(big)) * 8 - Ms,
                         Expo(Abs(big)) - 3, st))))

\* a + b
F32Add(a, b) ==
  IF IsNaN(a) \/ IsNaN(b) THEN F32NaN
  ELSE IF IsInf(a) /\ IsInf(b) THEN (IF a = b THEN a ELSE F32NaN)
  ELSE IF IsInf(a) THEN a
  ELSE IF IsInf(b) THEN b
  ELSE IF a = 0 THEN b
  ELSE IF b = 0 THEN a
  ELSE AddMags(IF Abs(a) >= Abs(b) THEN a ELSE b,
               IF Abs(a) >= Abs(b) THEN b ELSE a)

F32Neg(a) == IF IsNaN(a) THEN a ELSE -a
F32Sub(a, b) == F32Add(a, F32Neg(b))

\* the 48-bit product of two 24-bit significands, in 12-bit limbs:
\* <<hi, lo>> with product = hi * 2^24 + lo
MulParts(ah, al, bh, bl) ==
  With(ah * bl + al * bh, LAMBDA mid :
  With((mid % 4096) * 4096 + al * bl, LAMBDA low :
    <<ah * bh + mid \div 4096 + low \div 16777216, low % 16777216>>))

\* round (hi * 2^24 + lo) * 2^X
MulPack(hi, lo, X) ==
  With(IF BitLen(hi) < 5 THEN 24 ELSE 29 - BitLen(hi), LAMBDA k :
    Pack(hi * Pow2(k) + lo \div Pow2(24 - k), X + 24 - k, lo % Pow2(24 - k) # 0))

\* a * b
F32Mul(a, b) ==
  IF IsNaN(a) \/ IsNaN(b) THEN F32NaN
  ELSE IF IsInf(a) \/ IsInf(b)
       THEN (IF a = 0 \/ b = 0 THEN F32NaN ELSE Sgn(a) * Sgn(b) * F32Inf)
  ELSE IF a = 0 \/ b = 0 THEN 0
  ELSE With(MulParts(Mant(Abs(a)) \div 4096, Mant(Abs(a)) % 4096,
                     Mant(Abs(b)) \div 4096, Mant(Abs(b)) % 4096), LAMBDA pr :
         Sgn(a) * Sgn(b) * MulPack(pr[1], pr[2], Expo(Abs(a)) + Expo(Abs(b))))

\* seven more bits of the quotient: qr is <<quotient, remainder>>
DivStep(qr, mb) == <<qr[1] * 128 + (qr[2] * 128) \div mb, (qr[2] * 128) % mb>>

\* ma * 2^28 divided by mb, as <<quotient, remainder>>
DivMant(ma, mb) ==
  DivStep(DivStep(DivStep(DivStep(<<ma \div mb, ma % mb>>, mb), mb), mb), mb)

\* a / b
F32Div(a, b) ==
  IF IsNaN(a) \/ IsNaN(b) THEN F32NaN
  ELSE IF IsInf(a) THEN (IF IsInf(b) THEN F32NaN ELSE Sgn(a) * Sgn(b) * F32Inf)
  ELSE IF IsInf(b) THEN 0
  ELSE IF b = 0 THEN (IF a = 0 THEN F32NaN ELSE Sgn(a) * F32Inf)
  ELSE IF a = 0 THEN 0
  ELSE With(24 - BitLen(Mant(Abs(a))), LAMBDA na :
       With(24 - BitLen(Mant(Abs(b))), LAMBDA nb :
       With(DivMant(Mant(Abs(a)) * Pow2(na), Mant(Abs(b)) * Pow2(nb)), LAMBDA qr :
         Sgn(a) * Sgn(b) *
           Pack(qr[1], (Expo(Abs(a)) - na) - (Expo(Abs(b)) - nb) - 28, qr[2] # 0))))

F32Lt(a, b) == ~IsNaN(a) /\ ~IsNaN(b) /\ a < b
F32Le(a, b) == ~IsNaN(a) /\ ~IsNaN(b) /\ a <= b
F32Gt(a, b) == F32Lt(b, a)
F32Ge(a, b) == F32Le(b, a)

\* f32::clamp(min, max)
F32Clamp(x, lo, hi) == IF F32Lt(x, lo) THEN lo ELSE IF F32Gt(x, hi) THEN hi ELSE x

\* the literals of the source, as binary32
F0_0     == 0             \* 0.0
F0_001   == 981668463     \* 0.001
F0_01    == 1008981770    \* 0.01
F0_1     == 1036831949    \* 0.1
F0_2     == 1045220557    \* 0.2
F0_5     == 1056964608    \* 0.5
F1_0     == 1065353216    \* 1.0
F1_01    == 1065437102    \* 1.01
F2_0     == 1073741824    \* 2.0
F2_4     == 1075419546    \* 2.4
F3_0     == 1077936128    \* 3.0
F4_0     == 1082130432    \* 4.0
F10_0    == 1092616192    \* 10.0
F20_0    == 1101004800    \* 20.0
F440_0   == 1138491392    \* 440.0
F1000_0  == 1148846080    \* 1000.0
F20000_0 == 1184645120    \* 20000.0
F44100_0 == 1194083328    \* 44100.0
PI       == 1078530011    \* std::f32::consts::PI

\* f32::sin has no closed form over the integers; it is modelled by
\* Bhaskara's rational approximation evaluated in binary32,
\*   sin(x) ~ 16 x (pi - x) / (5 pi^2 - 4 x (pi - x))   for 0 <= x <= pi,
\* extended by sin(x + pi) = -sin(x) and sin(-x) = -sin(x).  It is exact at
\* 0, pi/2 and pi up to rounding and within 0.002 elsewhere, and its
\* range is [-1, 1].
F5_0  == F32Add(F4_0, F1_0)
F16_0 == F32Mul(F4_0, F4_0)
SinHalf(x) ==
  With(F32Mul(x, F32Sub(PI, x)), LAMBDA p :
    F32Clamp(F32Div(F32Mul(F16_0, p),
                    F32Sub(F32Mul(F5_0, F32Mul(PI, PI)), F32Mul(F4_0, p))),
             F0_0, F1_0))
RECURSIVE F32Sin(_)
F32Sin(x) ==
  IF IsNaN(x) \/ IsInf(x) THEN F32NaN
  ELSE IF x < 0 THEN F32Neg(F32Sin(-x))
  ELSE With(IF x <= PI THEN x ELSE F32Sub(x, PI), LAMBDA y :
         IF x <= PI THEN SinHalf(y)
         ELSE IF y <= PI THEN F32Neg(SinHalf(y))
         ELSE F32Sin(F32Sub(x, F32Mul(F2_0, PI))))

\* f32::exp2 on the 256 arguments n/12, n in -128..127, that
\* midi_pitch_to_freq can pass: the correctly rounded binary32 of 2^(n/12)
Exp2Table ==
  <<
  975258901, 975887371, 976553203, 977258628, 978006008, 978797821, 979636717, 980525507,
  981467136, 981965947, 982494424, 983054320, 983647509, 984275979, 984941811, 985647236,
  986394616, 987186429, 988025325, 988914115, 989855744, 990354555, 990883032, 991442928,
  992036117, 992664587, 993330419, 994035844, 994783224, 995575037, 996413933, 997302723,
  998244352, 998743166, 999271637, 999831536, 1000424729, 1001053191, 1001719027, 1002424456,
  1003171828, 1003963645, 1004802546, 1005691325, 1006632960, 1007131774, 1007660245, 1008220144,
  1008813337, 1009441799, 1010107635, 1010813064, 1011560436, 1012352253, 1013191154, 1014079933,
  1015021568, 1015520382, 1016048853, 1016608752, 1017201945, 1017830407, 1018496243, 1019201672,
  1019949044, 1020740861, 1021579762, 1022468541, 1023410176, 1023908990, 1024437461, 1024997360,
  1025590553, 1026219015, 1026884851, 1027590280, 1028337652, 1029129469, 1029968370, 1030857149,
  1031798784, 1032297596, 1032826071, 1033385968, 1033979159, 1034607625, 1035273459, 1035978886,
  1036726262, 1037518077, 1038356975, 1039245760, 1040187392, 1040686204, 1041214679, 1041774576,
  1042367767, 1042996233, 1043662067, 1044367494, 1045114870, 1045906685, 1046745583, 1047634368,
  1048576000, 1049074813, 1049603286, 1050163184, 1050756376, 1051384840, 1052050675, 1052756103,
  1053503477, 1054295293, 1055134193, 1056022975, 1056964608, 1057463420, 1057991894, 1058551792,
  1059144984, 1059773448, 1060439283, 1061144711, 1061892085, 1062683901, 1063522800, 1064411583,
  1065353216, 1065852029, 1066380502, 1066940400, 1067533592, 1068162056, 1068827891, 1069533319,
  1070280693, 1071072509, 1071911408, 1072800191, 1073741824, 1074240637, 1074769110, 1075329008,
  1075922200, 1076550664, 1077216499, 1077921927, 1078669301, 1079461117, 1080300017, 1081188799,
  1082130432, 1082629244, 1083157719, 1083717616, 1084310807, 1084939273, 1085605107, 1086310534,
  1087057910, 1087849725, 1088688623, 1089577408, 1090519040, 1091017852, 1091546327, 1092106224,
  1092699415, 1093327881, 1093993715, 1094699142, 1095446518, 1096238333, 1097077231, 1097966016,
  1098907648, 1099406462, 1099934933, 1100494832, 1101088025, 1101716487, 1102382323, 1103087752,
  1103835124, 1104626941, 1105465842, 1106354621, 1107296256, 1107795070, 1108323541, 1108883440,
  1109476633, 1110105095, 1110770931, 1111476360, 1112223732, 1113015549, 1113854450, 1114743229,
  1115684864, 1116183678, 1116712149, 1117272048, 1117865241, 1118493703, 1119159539, 1119864968,
  1120612340, 1121404157, 1122243058, 1123131837, 1124073472, 1124572286, 1125100757, 1125660656,
  1126253849, 1126882311, 1127548147, 1128253576, 1129000948, 1129792765, 1130631666, 1131520445,
  1132462080, 1132960891, 1133489368, 1134049264, 1134642453, 1135270923, 1135936755, 1136642180,
  1137389560, 1138181373, 1139020269, 1139909059, 1140850688, 1141349499, 1141877976, 1142437872,
  1143031061, 1143659531, 1144325363, 1145030788, 1145778168, 1146569981, 1147408877, 1148297667,
  1149239296, 1149738107, 1150266584, 1150826480, 1151419669, 1152048139, 1152713971, 1153419396
  >>
\* (f32::from(n) / 12.0).exp2()
F32Exp2Twelfths(n) == Exp2Table[n + 129]

\* ------------------------------------------------------------------------
\* enum OscType, enum EnvelopeStage
\* ------------------------------------------------------------------------
OscType == {"Sine", "Saw", "Square", "Triangle", "Noise"}
EnvelopeStage == {"Idle", "Attack", "Decay", "Sustain", "Release"}

\* ------------------------------------------------------------------------
\* struct Oscillator
\* ------------------------------------------------------------------------
Oscillator_new(osc_type) ==
  [phase |-> F0_0, freq |-> F440_0, osc_type |-> osc_type]

\* a variant of the phase advance without the wrap
AdvancePhaseNoWrap(phase, freq, sample_rate) ==
  F32Add(phase, F32Div(freq, sample_rate))

\* phase += freq / sample_rate; if phase >= 1.0 { phase -= 1.0 }
AdvancePhase(phase, freq, sample_rate) ==
  With(F32Add(phase, F32Div(freq, sample_rate)), LAMBDA p :
    IF F32Ge(p, F1_0) THEN F32Sub(p, F1_0) ELSE p)

\* the waveform value at the current phase; noise is the value the
\* random generator returns for this call
Waveform(osc, noise) ==
  CASE osc.osc_type = "Sine"     -> F32Sin(F32Mul(F32Mul(osc.phase, F2_0), PI))
    [] osc.osc_type = "Saw"      -> F32Sub(F1_0, F32Mul(F2_0, osc.phase))
    [] osc.osc_type = "Square"   -> IF F32Lt(osc.phase, F0_5) THEN F1_0 ELSE -F1_0
    [] osc.osc_type = "Triangle" ->
         IF F32Lt(osc.phase, F0_5)
         THEN F32Sub(F32Mul(F4_0, osc.phase), F1_0)
         ELSE F32Sub(F3_0, F32Mul(F4_0, osc.phase))
    [] osc.osc_type = "Noise"    -> noise

\* Oscillator::generate_sample: the updated oscillator and the sample
Oscillator_generate_sample(osc, sample_rate, noise) ==
  [osc    |-> [osc EXCEPT !.phase = AdvancePhase(osc.phase, osc.freq, sample_rate)],
   output |-> Waveform(osc, noise)]

\* ------------------------------------------------------------------------
\* struct Envelope
\* ------------------------------------------------------------------------
Envelope_new(sample_rate) ==
  [attack |-> F0_01, decay |-> F0_1, sustain |-> F0_5, release |-> F0_2,
   stage |-> "Idle", level |-> F0_0, sample_rate |-> sample_rate]

\* a variant of trigger that keeps the level (a legato restart)
TriggerKeepsLevel(env) == [env EXCEPT !.stage = "Attack"]

Envelope_trigger(env) == [env EXCEPT !.stage = "Attack", !.level = F0_0]

\* a variant of r_stage that lets a running Attack finish
RStageAfterAttack(env) ==
  IF env.stage = "Attack" THEN env ELSE [env EXCEPT !.stage = "Release"]

Envelope_r_stage(env) == [env EXCEPT !.stage = "Release"]

\* variants of the Attack arm: one that leaves the overshoot in level, one
\* that goes to Sustain, one that counts with decay in place of attack
EnvAttackOvershoot(env) ==
  With(F32Add(env.level, F32Div(F1_0, F32Mul(env.attack, env.sample_rate))),
       LAMBDA l :
    IF F32Ge(l, F1_0)
    THEN [env EXCEPT !.level = l, !.stage = "Decay"]
    ELSE [env EXCEPT !.level = l])

EnvAttackToSustain(env) ==
  With(F32Add(env.level, F32Div(F1_0, F32Mul(env.attack, env.sample_rate))),
       LAMBDA l :
    IF F32Ge(l, F1_0)
    THEN [env EXCEPT !.level = F1_0, !.stage = "Sustain"]
    ELSE [env EXCEPT !.level = l])

EnvAttackByDecay(env) ==
  With(F32Add(env.level, F32Div(F1_0, F32Mul(env.decay, env.sample_rate))),
       LAMBDA l :
    IF F32Ge(l, F1_0)
    THEN [env EXCEPT !.level = F1_0, !.stage = "Decay"]
    ELSE [env EXCEPT !.level = l])

EnvAttack(env) ==
  With(F32Add(env.level, F32Div(F1_0, F32Mul(env.attack, env.sample_rate))),
       LAMBDA l :
    IF F32Ge(l, F1_0)
    THEN [env EXCEPT !.level = F1_0, !.stage = "Decay"]
    ELSE [env EXCEPT !.level = l])

EnvDecay(env) ==
  With(F32Sub(env.level, F32Div(F32Sub(F1_0, env.sustain),
                                F32Mul(env.decay, env.sample_rate))),
       LAMBDA l :
    IF F32Le(l, env.sustain)
    THEN [env EXCEPT !.level = env.sustain, !.stage = "Sustain"]
    ELSE [env EXCEPT !.level = l])

\* a variant of the Release arm without the 0.001 floor
EnvReleaseNoFloor(env) ==
  [env EXCEPT !.level = F32Sub(env.level,
                               F32Div(env.level, F32Mul(env.release, env.sample_rate)))]

EnvRelease(env) ==
  With(F32Sub(env.level, F32Div(env.level, F32Mul(env.release, env.sample_rate))),
       LAMBDA l :
    IF F32Le(l, F0_001)
    THEN [env EXCEPT !.level = F0_0, !.stage = "Idle"]
    ELSE [env EXCEPT !.level = l])

\* a variant of Envelope::process whose Sustain arm keeps lowering the level
\* by the Decay step
EnvelopeProcessSustainFades(env) ==
  CASE env.stage = "Idle"    -> [env EXCEPT !.level = F0_0]
    [] env.stage = "Attack"  -> EnvAttack(env)
    [] env.stage = "Decay"   -> EnvDecay(env)
    [] env.stage = "Sustain" ->
         [env EXCEPT !.level = F32Sub(@, F32Div(F32Sub(F1_0, env.sustain),
                                                F32Mul(env.decay, env.sample_rate)))]
    [] env.stage = "Release" -> EnvRelease(env)

\* Envelope::process: the updated envelope; the value returned is its level
Envelope_process(env) ==
  CASE env.stage = "Idle"    -> [env EXCEPT !.level = F0_0]
    [] env.stage = "Attack"  -> EnvAttack(env)
    [] env.stage = "Decay"   -> EnvDecay(env)
    [] env.stage = "Sustain" -> env
    [] env.stage = "Release" -> EnvRelease(env)

\* ------------------------------------------------------------------------
\* struct LowPassFilter
\* ------------------------------------------------------------------------
LowPassFilter_new ==
  [cutoff |-> F1000_0, resonance |-> F0_5, y1 |-> F0_0, y2 |-> F0_0]

\* LowPassFilter::process: the updated filter and the output
\* (_r, computed from resonance at line 183, is never used)
LowPassFilter_process(flt, input, sample_rate) ==
  With(F32Div(F32Mul(F32Mul(F2_0, PI), flt.cutoff), sample_rate), LAMBDA c :
  With(F32Div(c, F32Add(F1_0, c)), LAMBDA k :
  With(F32Add(F32Mul(input, k), F32Mul(flt.y1, F32Sub(F1_0, k))), LAMBDA output :
    [filter |-> [flt EXCEPT
                   !.y1 = F32Add(F32Mul(output, k), F32Mul(flt.y2, F32Sub(F1_0, k))),
                   !.y2 = output],
     output |-> output])))

\* ------------------------------------------------------------------------
\* struct LFO
\* ------------------------------------------------------------------------
LFO_new == [phase |-> F0_0, freq |-> F2_4]

LFO_process(lfo, sample_rate) ==
  [lfo    |-> [lfo EXCEPT !.phase = AdvancePhase(lfo.phase, lfo.freq, sample_rate)],
   output |-> F32Sin(F32Mul(F32Mul(lfo.phase, F2_0), PI))]

\* ------------------------------------------------------------------------
\* struct SynthParams (the parameter store) and impl PluginParameters
\* ------------------------------------------------------------------------
SynthParams_default ==
  [osc1_freq |-> F440_0, osc2_freq |-> F440_0, filter_cutoff |-> F1000_0,
   filter_resonance |-> F0_5, lfo_freq |-> F1_0, lfo_amount |-> F0_5]

get_parameter(p, index) ==
  CASE index = 0 -> F32Div(p.osc1_freq, F20000_0)
    [] index = 1 -> F32Div(p.osc2_freq, F20000_0)
    [] index = 2 -> F32Div(p.filter_cutoff, F20000_0)
    [] index = 3 -> p.filter_resonance
    [] index = 4 -> F32Div(p.lfo_freq, F10_0)
    [] index = 5 -> p.lfo_amount
    [] OTHER     -> F0_0

\* a variant of set_parameter that scales the LFO frequency like a frequency in Hz
SetParameterLfoInHz(p, index, value) ==
  CASE index = 0 -> [p EXCEPT !.osc1_freq = F32Mul(value, F20000_0)]
    [] index = 1 -> [p EXCEPT !.osc2_freq = F32Mul(value, F20000_0)]
    [] index = 2 -> [p EXCEPT !.filter_cutoff = F32Mul(value, F20000_0)]
    [] index = 3 -> [p EXCEPT !.filter_resonance = value]
    [] index = 4 -> [p EXCEPT !.lfo_freq = F32Mul(value, F20000_0)]
    [] index = 5 -> [p EXCEPT !.lfo_amount = F32Mul(value, F2_0)]
    [] OTHER     -> p

\* a variant of set_parameter whose store is not one store: the upper half
\* of the new value lands on the lower half of the old one
TornMix(old, new) ==
  (IF new < 0 THEN -1 ELSE 1) * ((Abs(new) \div 65536) * 65536 + (Abs(old) % 65536))

SetParameterTorn(p, index, value) ==
  CASE index = 0 -> [p EXCEPT !.osc1_freq = TornMix(@, F32Mul(value, F20000_0))]
    [] index = 1 -> [p EXCEPT !.osc2_freq = TornMix(@, F32Mul(value, F20000_0))]
    [] index = 2 -> [p EXCEPT !.filter_cutoff = TornMix(@, F32Mul(value, F20000_0))]
    [] index = 3 -> [p EXCEPT !.filter_resonance = TornMix(@, value)]
    [] index = 4 -> [p EXCEPT !.lfo_freq = TornMix(@, F32Mul(value, F20_0))]
    [] index = 5 -> [p EXCEPT !.lfo_amount = TornMix(@, F32Mul(value, F2_0))]
    [] OTHER     -> p

set_parameter(p, index, value) ==
  CASE index = 0 -> [p EXCEPT !.osc1_freq = F32Mul(value, F20000_0)]
    [] index = 1 -> [p EXCEPT !.osc2_freq = F32Mul(value, F20000_0)]
    [] index = 2 -> [p EXCEPT !.filter_cutoff = F32Mul(value, F20000_0)]
    [] index = 3 -> [p EXCEPT !.filter_resonance = value]
    [] index = 4 -> [p EXCEPT !.lfo_freq = F32Mul(value, F20_0)]
    [] index = 5 -> [p EXCEPT !.lfo_amount = F32Mul(value, F2_0)]
    [] OTHER     -> p

\* ------------------------------------------------------------------------
\* fn midi_pitch_to_freq
\* ------------------------------------------------------------------------
A4_PITCH == 69
A4_FREQ  == F440_0

\* `pitch as i8`: the u8 reinterpreted as two's complement
AsI8(pitch) == IF pitch >= 128 THEN pitch - 256 ELSE pitch
\* i8 subtraction as the wrapping machine instruction computes it
WrapI8(n) == ((n + 128) % 256) - 128

midi_pitch_to_freq(pitch) ==
  F32Mul(F32Exp2Twelfths(WrapI8(AsI8(pitch) - A4_PITCH)), A4_FREQ)

\* ------------------------------------------------------------------------
\* struct MySynth
\* ------------------------------------------------------------------------
MySynth_default ==
  [sample_rate |-> F44100_0,
   oscillators |-> << Oscillator_new("Sine"), Oscillator_new("Saw"),
                      Oscillator_new("Square"), Oscillator_new("Triangle"),
                      Oscillator_new("Noise") >>,
   envelope    |-> Envelope_new(F44100_0),
   filter      |-> LowPassFilter_new,
   lfo         |-> LFO_new,
   note        |-> 0,
   note_on     |-> FALSE]

\* get_info: outputs: 2
OutputCount == 2

\* one event of process_events; an event is [midi |-> BOOLEAN, data |-> <<b0, b1, b2>>]
\* variants of the note-off arm: one that also closes the gate, one that
\* releases whatever note the event names
NoteOffClosesGate(s, data1) ==
  IF data1 = s.note
  THEN [s EXCEPT !.envelope = Envelope_r_stage(s.envelope), !.note_on = FALSE]
  ELSE s

NoteOffAnyNote(s, data1) == [s EXCEPT !.envelope = Envelope_r_stage(s.envelope)]

NoteOff(s, data1) ==
  IF data1 = s.note
  THEN [s EXCEPT !.envelope = Envelope_r_stage(s.envelope)]
  ELSE s

\* a variant of the note-on arm that retunes every oscillator
NoteOnAllOscillators(s, data1) ==
  With(midi_pitch_to_freq(data1), LAMBDA freq :
    [s EXCEPT !.note = data1,
              !.oscillators = [i \in 1 .. 5 |->
                 [s.oscillators[i] EXCEPT !.freq = IF i = 2 THEN F32Mul(freq, F1_01)
                                                   ELSE freq]],
              !.envelope = Envelope_trigger(s.envelope),
              !.note_on = TRUE])

NoteOn(s, data1) ==
  With(midi_pitch_to_freq(data1), LAMBDA freq :
    [s EXCEPT !.note = data1,
              !.oscillators[1].freq = freq,
              !.oscillators[2].freq = F32Mul(freq, F1_01),
              !.envelope = Envelope_trigger(s.envelope),
              !.note_on = TRUE])

HandleEvent(s, ev) ==
  IF ~ev.midi THEN s
  ELSE CASE ev.data[1] = 128 -> NoteOff(s, ev.data[2])
         [] ev.data[1] = 144 -> NoteOn(s, ev.data[2])
         [] OTHER            -> s

\* for event in events.events() { ... }
RECURSIVE HandleEvents(_, _)
HandleEvents(s, events) ==
  IF events = << >> THEN s
  ELSE HandleEvents(HandleEvent(s, Head(events)), Tail(events))

\* for osc in &mut self.oscillators { output += osc.generate_sample(..) }
\* from oscillator i on, with the running sum acc
RECURSIVE SumOscillators(_, _, _, _, _)
SumOscillators(oscs, i, acc, sample_rate, noise) ==
  IF i > Len(oscs) THEN [oscillators |-> oscs, output |-> acc]
  ELSE With(Oscillator_generate_sample(oscs[i], sample_rate, noise), LAMBDA g :
         SumOscillators([oscs EXCEPT ![i] = g.osc], i + 1,
                        F32Add(acc, g.output), sample_rate, noise))

\* variants of the voice that take from the parameter store what the code
\* takes from the engine: the frequencies of oscillators 0 and 1, and the
\* LFO's frequency and the filter's resonance
RenderVoiceOscParams(s, p, noise) ==
  With([s EXCEPT !.oscillators[1].freq = p.osc1_freq,
                 !.oscillators[2].freq = p.osc2_freq], LAMBDA s0 :
  With(SumOscillators(s0.oscillators, 1, F0_0, s0.sample_rate, noise), LAMBDA mix :
  With(Envelope_process(s0.envelope), LAMBDA env :
  With(LFO_process(s0.lfo, s0.sample_rate), LAMBDA l :
  With(F32Mul(p.filter_cutoff, F32Add(F1_0, F32Mul(l.output, p.lfo_amount))),
       LAMBDA cutoff_mod :
  With(LowPassFilter_process(
         [s0.filter EXCEPT !.cutoff = F32Clamp(cutoff_mod, F20_0, F20000_0)],
         F32Mul(F32Mul(mix.output, F0_5), env.level),
         s0.sample_rate), LAMBDA f :
    [synth  |-> [s0 EXCEPT !.oscillators = mix.oscillators,
                           !.envelope = env,
                           !.lfo = l.lfo,
                           !.filter = f.filter],
     output |-> f.output]))))))

RenderVoiceLfoParams(s, p, noise) ==
  With([s EXCEPT !.lfo.freq = p.lfo_freq,
                 !.filter.resonance = p.filter_resonance], LAMBDA s0 :
  With(SumOscillators(s0.oscillators, 1, F0_0, s0.sample_rate, noise), LAMBDA mix :
  With(Envelope_process(s0.envelope), LAMBDA env :
  With(LFO_process(s0.lfo, s0.sample_rate), LAMBDA l :
  With(F32Mul(p.filter_cutoff, F32Add(F1_0, F32Mul(l.output, p.lfo_amount))),
       LAMBDA cutoff_mod :
  With(LowPassFilter_process(
         [s0.filter EXCEPT !.cutoff = F32Clamp(cutoff_mod, F20_0, F20000_0)],
         F32Mul(F32Mul(mix.output, F0_5), env.level),
         s0.sample_rate), LAMBDA f :
    [synth  |-> [s0 EXCEPT !.oscillators = mix.oscillators,
                           !.envelope = env,
                           !.lfo = l.lfo,
                           !.filter = f.filter],
     output |-> f.output]))))))

\* the body of `if self.note_on { ... }` for one sample
RenderVoice(s, p, noise) ==
  With(SumOscillators(s.oscillators, 1, F0_0, s.sample_rate, noise), LAMBDA mix :
  With(Envelope_process(s.envelope), LAMBDA env :
  With(LFO_process(s.lfo, s.sample_rate), LAMBDA l :
  With(F32Mul(p.filter_cutoff, F32Add(F1_0, F32Mul(l.output, p.lfo_amount))),
       LAMBDA cutoff_mod :
  With(LowPassFilter_process(
         [s.filter EXCEPT !.cutoff = F32Clamp(cutoff_mod, F20_0, F20000_0)],
         F32Mul(F32Mul(mix.output, F0_5), env.level),
         s.sample_rate), LAMBDA f :
    [synth  |-> [s EXCEPT !.oscillators = mix.oscillators,
                          !.envelope = env,
                          !.lfo = l.lfo,
                          !.filter = f.filter],
     output |-> f.output])))))

\* a variant of the iteration that runs the envelope while the gate is off
RenderSampleEnvWhenOff(s, p, noise) ==
  IF s.note_on THEN RenderVoice(s, p, noise)
  ELSE [synth |-> [s EXCEPT !.envelope = Envelope_process(s.envelope)], output |-> F0_0]

\* a variant of the iteration that writes the oscillator mix while the gate is off
RenderSampleMixWhenOff(s, p, noise) ==
  IF s.note_on THEN RenderVoice(s, p, noise)
  ELSE [synth  |-> s,
        output |-> SumOscillators(s.oscillators, 1, F0_0, s.sample_rate, noise).output]

\* one iteration of `for sample_idx in 0..samples`: the synth after it and
\* the value written to every output channel
RenderSample(s, p, noise) ==
  IF s.note_on THEN RenderVoice(s, p, noise)
  ELSE [synth |-> s, output |-> F0_0]

\* for sample_idx in 0..samples { ... }: the synth after a whole block of
\* `samples` samples, rendered half by half so that each half is a value
\* before the next one starts
RECURSIVE RenderBlock(_, _, _, _)
RenderBlock(s, p, noise, samples) ==
  IF samples = 0 THEN s
  ELSE IF samples = 1 THEN RenderSample(s, p, noise).synth
  ELSE With(RenderBlock(s, p, noise, samples \div 2), LAMBDA h :
         IF h = h THEN RenderBlock(h, p, noise, samples - samples \div 2) ELSE h)

\* ------------------------------------------------------------------------
\* Bounds and input sets of the model
\* ------------------------------------------------------------------------
MaxSamples == 2      \* samples rendered in one behaviour
MaxSets    == 1      \* set_parameter calls in one behaviour of Spec
MaxWrites  == 2      \* set_parameter calls in one behaviour of SpecParams
MaxCalls   == 62000  \* process calls after a trigger or r_stage (SpecEnvelope)

F1_5 == F32Add(F1_0, F0_5)   \* 1.5, a normalized value outside [0,1]

Pitches      == {0, 69}           \* data1 of the delivered MIDI events
Statuses     == {128, 144, 145}   \* note off, note on, note on of channel 2
NoiseValues  == {-F0_5}           \* values the noise oscillator draws
ParamIndices == 0 .. 6            \* 6 is not a parameter
HostValues   == {-F0_5, F0_0, F0_5, F1_0, F1_5}  \* values passed to set_parameter
RenderParams == {2, 5}            \* filter_cutoff and lfo_amount, the two
                                  \* parameters process() reads
WarmSamples  == {440, 4851}       \* the last sample of Attack, the last of Decay

NoteOnEvent(p)  == [midi |-> TRUE, data |-> <<144, p, 100>>]
NoteOffEvent(p) == [midi |-> TRUE, data |-> <<128, p, 100>>]
MidiEvents == {[midi |-> TRUE, data |-> <<st, d1, 100>>] : st \in Statuses, d1 \in Pitches}
SysExEvent == [midi |-> FALSE, data |-> <<240, 0, 0>>]
Events == MidiEvents \cup {SysExEvent}
\* the event lists of one process_events call: one event each; a longer
\* list acts as its events delivered by consecutive calls
EventLists == {<<ev>> : ev \in Events}

\* ------------------------------------------------------------------------
\* State
\* ------------------------------------------------------------------------
VARIABLES
  synth,     \* the MySynth the host owns
  params,    \* the SynthParams behind the Arc
  proc,      \* position of the audio thread inside process(): the buffer
             \* length and the sample_idx of the for loop
  outputs,   \* the samples process() has written to each output channel
  last,      \* the last call made on the plugin: its name, its argument,
             \* its result and the envelope stage it found
  written,   \* per parameter, the normalized value last passed to
             \* set_parameter, as <<value>> (<< >> before the first write)
  rendered,  \* samples rendered since the initial state
  nsets,     \* set_parameter calls so far
  calls,     \* Envelope::process calls since the envelope was last
             \* triggered or released (SpecEnvelope); samples advanced
             \* (SpecPhase)
  twin,      \* a second plugin instance, given the same calls as the first
             \* except for the values written to some parameters (SpecTwin)
  audio,     \* the audio thread inside one sample: where it is and the
             \* values its loads of the parameters returned (SpecThreads)
  ctl        \* the control thread inside set_parameter: where it is, the
             \* parameter index and the normalized value (SpecThreads)

vars == <<synth, params, proc, outputs, last, written, rendered, nsets, calls, twin, audio, ctl>>

NotInProcess == [active |-> FALSE, samples |-> 0, sample_idx |-> 0]

\* the audio thread before the loads of a sample; a load not yet made is << >>
NotLoaded == [pc |-> "load_cutoff", filter_cutoff |-> << >>, lfo_amount |-> << >>]
\* the control thread outside set_parameter
NotInSet == [pc |-> "idle", index |-> 0, value |-> F0_0, scaled |-> F0_0]
\* the state every run starts in, for the variables only some specifications use
Untouched ==
  /\ twin = [synth |-> MySynth_default, params |-> SynthParams_default,
             outputs |-> [ch \in 1 .. OutputCount |-> << >>]]
  /\ audio = NotLoaded
  /\ ctl = NotInSet

Call(name, arg, ret) ==
  [call |-> name, arg |-> arg, ret |-> ret, stage |-> synth.envelope.stage]

\* Plugin::new
Init ==
  /\ synth = MySynth_default
  /\ params = SynthParams_default
  /\ proc = NotInProcess
  /\ outputs = [ch \in 1 .. OutputCount |-> << >>]
  /\ last = [call |-> "new", arg |-> << >>, ret |-> << >>, stage |-> "Idle"]
  /\ written = [i \in 0 .. 5 |-> << >>]
  /\ rendered = 0
  /\ nsets = 0
  /\ calls = 0
  /\ Untouched

\* Plugin::process_events, called by the audio thread between two blocks
ProcessEvents(events) ==
  /\ ~proc.active
  /\ synth' = HandleEvents(synth, events)
  /\ last' = Call("process_events", events, << >>)
  /\ UNCHANGED <<params, proc, outputs, written, rendered, nsets, calls, twin, audio, ctl>>

\* Plugin::process up to the first iteration of its loop
ProcessBegin(samples) ==
  /\ ~proc.active
  /\ rendered + samples <= MaxSamples
  /\ proc' = [active |-> samples > 0, samples |-> samples, sample_idx |-> 0]
  /\ outputs' = [ch \in 1 .. OutputCount |-> << >>]
  /\ last' = Call("process", samples, << >>)
  /\ UNCHANGED <<synth, params, written, rendered, nsets, calls, twin, audio, ctl>>

\* one iteration of the loop of Plugin::process; the call returns after the last
ProcessSample(noise) ==
  /\ proc.active
  /\ LET r == RenderSample(synth, params, noise)
     IN  /\ synth' = r.synth
         /\ outputs' = [ch \in 1 .. OutputCount |-> Append(outputs[ch], r.output)]
  /\ proc' = [proc EXCEPT !.sample_idx = @ + 1,
                          !.active = proc.sample_idx + 1 < proc.samples]
  /\ rendered' = rendered + 1
  /\ UNCHANGED <<params, last, written, nsets, calls, twin, audio, ctl>>

\* PluginParameters::set_parameter, called by the host's control thread
SetParameter(index, value) ==
  /\ params' = set_parameter(params, index, value)
  /\ written' = IF index \in 0 .. 5 THEN [written EXCEPT ![index] = <<value>>] ELSE written
  /\ last' = Call("set_parameter", <<index, value>>, << >>)
  /\ nsets' = nsets + 1
  /\ UNCHANGED <<synth, proc, outputs, rendered, calls, twin, audio, ctl>>

\* PluginParameters::get_parameter
GetParameter(index) ==
  /\ last' = Call("get_parameter", index, get_parameter(params, index))
  /\ UNCHANGED <<synth, params, proc, outputs, written, rendered, nsets, calls, twin, audio, ctl>>

\* Envelope::trigger, Envelope::r_stage and Envelope::process called on the
\* engine's envelope alone
EnvTrigger ==
  /\ synth.envelope.stage = "Idle"
  /\ synth' = [synth EXCEPT !.envelope = Envelope_trigger(@)]
  /\ last' = Call("trigger", << >>, << >>)
  /\ calls' = 0
  /\ UNCHANGED <<params, proc, outputs, written, rendered, nsets, twin, audio, ctl>>

EnvRStage ==
  /\ synth.envelope.stage = "Sustain"
  /\ synth' = [synth EXCEPT !.envelope = Envelope_r_stage(@)]
  /\ last' = Call("r_stage", << >>, << >>)
  /\ calls' = 0
  /\ UNCHANGED <<params, proc, outputs, written, rendered, nsets, twin, audio, ctl>>

EnvProcess ==
  /\ calls < MaxCalls
  /\ synth' = [synth EXCEPT !.envelope = Envelope_process(@)]
  /\ last' = Call("process", << >>, << >>)
  /\ calls' = calls + 1
  /\ UNCHANGED <<params, proc, outputs, written, rendered, nsets, twin, audio, ctl>>

\* the whole plugin: the audio thread's calls and the control thread's writes
Next ==
  \/ \E events \in EventLists : ProcessEvents(events)
  \/ \E samples \in 0 .. MaxSamples : ProcessBegin(samples)
  \/ \E noise \in NoiseValues : ProcessSample(noise)
  \/ nsets < MaxSets /\ \E index \in RenderParams : SetParameter(index, F1_5)

Spec == Init /\ [][Next]_vars

\* the plugin from the construction state and from two states deep in a
\* held note: note-on 69 followed by a block of 440 and of 4851 samples
InitWarm ==
  /\ synth \in {MySynth_default} \cup
               {RenderBlock(NoteOn(MySynth_default, 69), SynthParams_default, -F0_5, n) :
                  n \in WarmSamples}
  /\ params = SynthParams_default
  /\ proc = NotInProcess
  /\ outputs = [ch \in 1 .. OutputCount |-> << >>]
  /\ last = [call |-> "new", arg |-> << >>, ret |-> << >>, stage |-> "Idle"]
  /\ written = [i \in 0 .. 5 |-> << >>]
  /\ rendered = 0
  /\ nsets = 0
  /\ calls = 0
  /\ Untouched

NextWarm ==
  \/ \E events \in EventLists : ProcessEvents(events)
  \/ \E samples \in 0 .. MaxSamples : ProcessBegin(samples)
  \/ \E noise \in NoiseValues : ProcessSample(noise)

SpecWarm == InitWarm /\ [][NextWarm]_vars

\* the envelope alone: trigger from Idle, r_stage from Sustain, process
NextEnvelope ==
  \/ EnvTrigger
  \/ EnvRStage
  \/ EnvProcess

SpecEnvelope == Init /\ [][NextEnvelope]_vars

\* the parameter store alone: the host's writes and reads
NextParams ==
  \/ nsets < MaxWrites /\ \E index \in ParamIndices, value \in HostValues :
                            SetParameter(index, value)
  \/ \E index \in ParamIndices : GetParameter(index)

SpecParams == Init /\ [][NextParams]_vars

\* ------------------------------------------------------------------------
\* The audio thread and the control thread, access by access
\* ------------------------------------------------------------------------
F32Max == F32Inf - 1              \* f32::MAX, the largest finite value
ThreadValues == {F0_5, F32Max}    \* values the control thread passes

\* self.params.filter_cutoff.get(): the audio thread's load of the cutoff.
\* The oscillators, the envelope and the LFO of the sample touch nothing the
\* control thread can see; they are computed with the filter in FilterSample.
LoadCutoff ==
  /\ proc.active
  /\ synth.note_on
  /\ audio.pc = "load_cutoff"
  /\ audio' = [audio EXCEPT !.pc = "load_amount",
                            !.filter_cutoff = <<params.filter_cutoff>>]
  /\ UNCHANGED <<synth, params, proc, outputs, last, written, rendered, nsets,
                 calls, twin, ctl>>

\* self.params.lfo_amount.get()
LoadAmount ==
  /\ proc.active
  /\ synth.note_on
  /\ audio.pc = "load_amount"
  /\ audio' = [audio EXCEPT !.pc = "filter",
                            !.lfo_amount = <<params.lfo_amount>>]
  /\ UNCHANGED <<synth, params, proc, outputs, last, written, rendered, nsets,
                 calls, twin, ctl>>

\* the parameters as the audio thread loaded them in this sample
Loaded ==
  [params EXCEPT !.filter_cutoff = audio.filter_cutoff[1],
                 !.lfo_amount = audio.lfo_amount[1]]

\* the rest of the iteration: the sample computed from the loaded values and
\* written to the channels; with the gate off nothing is loaded
FilterSample(noise) ==
  /\ proc.active
  /\ synth.note_on => audio.pc = "filter"
  /\ LET r == RenderSample(synth, IF synth.note_on THEN Loaded ELSE params, noise)
     IN  /\ synth' = r.synth
         /\ outputs' = [ch \in 1 .. OutputCount |-> Append(outputs[ch], r.output)]
  /\ proc' = [proc EXCEPT !.sample_idx = @ + 1,
                          !.active = proc.sample_idx + 1 < proc.samples]
  /\ rendered' = rendered + 1
  /\ audio' = [audio EXCEPT !.pc = "load_cutoff"]
  /\ UNCHANGED <<params, last, written, nsets, calls, twin, ctl>>

\* the field of SynthParams behind each parameter index
ParamFields == <<"osc1_freq", "osc2_freq", "filter_cutoff", "filter_resonance",
                 "lfo_freq", "lfo_amount">>

\* set_parameter entered by the control thread: the match on index and the
\* multiplication are local to it and give the value to store
SetBegin(index, value) ==
  /\ ctl.pc = "idle"
  /\ nsets < MaxSets
  /\ ctl' = [pc |-> "store", index |-> index, value |-> value,
             scaled |-> IF index \in 0 .. 5
                        THEN set_parameter(params, index, value)[ParamFields[index + 1]]
                        ELSE F0_0]
  /\ UNCHANGED <<synth, params, proc, outputs, last, written, rendered, nsets,
                 calls, twin, audio>>

\* the .set(..) of set_parameter: one store to the parameter
SetStore ==
  /\ ctl.pc = "store"
  /\ params' = IF ctl.index \in 0 .. 5
               THEN [params EXCEPT ![ParamFields[ctl.index + 1]] = ctl.scaled]
               ELSE params
  /\ written' = IF ctl.index \in 0 .. 5
                THEN [written EXCEPT ![ctl.index] = <<ctl.value>>] ELSE written
  /\ last' = Call("set_parameter", <<ctl.index, ctl.value>>, << >>)
  /\ nsets' = nsets + 1
  /\ ctl' = NotInSet
  /\ UNCHANGED <<synth, proc, outputs, rendered, calls, twin, audio>>

\* the audio thread's accesses to what the control thread writes
AudioLoad ==
  \/ LoadCutoff
  \/ LoadAmount

NextThreads ==
  \/ \E events \in EventLists : ProcessEvents(events)
  \/ \E samples \in 0 .. MaxSamples : ProcessBegin(samples)
  \/ LoadCutoff
  \/ LoadAmount
  \/ \E noise \in NoiseValues : FilterSample(noise)
  \/ \E index \in RenderParams, value \in ThreadValues : SetBegin(index, value)
  \/ SetStore

SpecThreads == Init /\ [][NextThreads]_vars

\* ------------------------------------------------------------------------
\* Note-ons for every data1 byte, in both build profiles
\* ------------------------------------------------------------------------
AllPitches == 0 .. 255            \* every value of the u8 ev.data[1]

\* `pitch as i8 - A4_PITCH` leaves the range of i8
SubOverflows(pitch) ==
  AsI8(pitch) - A4_PITCH < -128 \/ AsI8(pitch) - A4_PITCH > 127

\* the event is a note-on whose pitch makes midi_pitch_to_freq overflow
Overflows(ev) == ev.midi /\ ev.data[1] = 144 /\ SubOverflows(ev.data[2])

\* process_events in a build with overflow checks (cargo's dev profile): the
\* subtraction panics, after `self.note = ev.data[1]` and before anything
\* else of the arm; HandleEvents is the build without the checks (the
\* release profile), where the subtraction wraps
RECURSIVE HandleEventsChecked(_, _)
HandleEventsChecked(s, events) ==
  IF events = << >> THEN [synth |-> s, panicked |-> FALSE]
  ELSE IF Overflows(Head(events))
       THEN [synth |-> [s EXCEPT !.note = Head(events).data[2]], panicked |-> TRUE]
       ELSE HandleEventsChecked(HandleEvent(s, Head(events)), Tail(events))

\* the plugin has panicked inside process_events
Panicked == last.ret = <<"panic">>

ProcessEventsChecked(events) ==
  /\ ~proc.active
  /\ ~Panicked
  /\ LET r == HandleEventsChecked(synth, events)
     IN  /\ synth' = r.synth
         /\ last' = Call("process_events", events,
                         IF r.panicked THEN <<"panic">> ELSE << >>)
  /\ UNCHANGED <<params, proc, outputs, written, rendered, nsets, calls, twin, audio, ctl>>

NextNotes ==
  \/ \E data1 \in AllPitches : ~Panicked /\ ProcessEvents(<<NoteOnEvent(data1)>>)
  \/ \E data1 \in AllPitches : ProcessEventsChecked(<<NoteOnEvent(data1)>>)

SpecNotes == Init /\ [][NextNotes]_vars

\* ------------------------------------------------------------------------
\* Two plugin instances given the same calls
\* ------------------------------------------------------------------------
\* the parameters the two instances may be written different values of:
\* Osc1 Freq, Osc2 Freq, Filter Resonance, LFO Freq
DifferParams == {0, 1, 3, 4}
TwinValues   == {F0_0, F1_0}      \* values passed to set_parameter
TwinEventLists == {<<NoteOnEvent(69)>>, <<NoteOffEvent(69)>>, <<NoteOnEvent(0)>>}

\* process_events, the same events to both instances
TwinEvents(events) ==
  /\ ~proc.active
  /\ synth' = HandleEvents(synth, events)
  /\ twin' = [twin EXCEPT !.synth = HandleEvents(@, events)]
  /\ last' = Call("process_events", events, << >>)
  /\ UNCHANGED <<params, proc, outputs, written, rendered, nsets, calls, audio, ctl>>

\* process entered with the same buffer length in both instances
TwinBegin(samples) ==
  /\ ~proc.active
  /\ rendered + samples <= MaxSamples
  /\ proc' = [active |-> samples > 0, samples |-> samples, sample_idx |-> 0]
  /\ outputs' = [ch \in 1 .. OutputCount |-> << >>]
  /\ twin' = [twin EXCEPT !.outputs = [ch \in 1 .. OutputCount |-> << >>]]
  /\ last' = Call("process", samples, << >>)
  /\ UNCHANGED <<synth, params, written, rendered, nsets, calls, audio, ctl>>

\* one iteration of the loop of process in both instances, the noise
\* oscillator drawing the same value
TwinSample(noise) ==
  /\ proc.active
  /\ LET r == RenderSample(synth, params, noise)
         t == RenderSample(twin.synth, twin.params, noise)
     IN  /\ synth' = r.synth
         /\ outputs' = [ch \in 1 .. OutputCount |-> Append(outputs[ch], r.output)]
         /\ twin' = [twin EXCEPT
                       !.synth = t.synth,
                       !.outputs = [ch \in 1 .. OutputCount |->
                                      Append(twin.outputs[ch], t.output)]]
  /\ proc' = [proc EXCEPT !.sample_idx = @ + 1,
                          !.active = proc.sample_idx + 1 < proc.samples]
  /\ rendered' = rendered + 1
  /\ UNCHANGED <<params, last, written, nsets, calls, audio, ctl>>

\* set_parameter on both instances: the same index, and the same value
\* unless the index is one of DifferParams
TwinSet(index, value, other) ==
  /\ nsets < MaxSets
  /\ index \notin DifferParams => other = value
  /\ params' = set_parameter(params, index, value)
  /\ twin' = [twin EXCEPT !.params = set_parameter(@, index, other)]
  /\ written' = IF index \in 0 .. 5 THEN [written EXCEPT ![index] = <<value>>] ELSE written
  /\ last' = Call("set_parameter", <<index, value>>, << >>)
  /\ nsets' = nsets + 1
  /\ UNCHANGED <<synth, proc, outputs, rendered, calls, audio, ctl>>

NextTwin ==
  \/ \E events \in TwinEventLists : TwinEvents(events)
  \/ \E samples \in 0 .. MaxSamples : TwinBegin(samples)
  \/ \E noise \in NoiseValues : TwinSample(noise)
  \/ \E index \in 0 .. 5, value \in TwinValues, other \in TwinValues :
       TwinSet(index, value, other)

SpecTwin == Init /\ [][NextTwin]_vars

\* ------------------------------------------------------------------------
\* The oscillators and the LFO alone, over whole cycles of their phase
\* ------------------------------------------------------------------------
MaxPhaseCalls == 18400            \* samples advanced in one behaviour: the LFO
                                  \* at 2.4 Hz wraps on its 18376th call
BlockLen      == 9200             \* samples per process() call; process_events
                                  \* is called between two blocks
PhasePitches  == {69, 127}        \* the pitches played: 127 is the highest
                                  \* MIDI pitch, freq / sample_rate = 0.284

\* the generate_sample call on each oscillator and the LFO::process call that
\* process() makes for one sample of a sounding note
AdvancePhases(noise) ==
  /\ synth.note_on
  /\ calls < MaxPhaseCalls
  /\ synth' = [synth EXCEPT
       !.oscillators = [i \in 1 .. 5 |->
          Oscillator_generate_sample(synth.oscillators[i], synth.sample_rate, noise).osc],
       !.lfo = LFO_process(synth.lfo, synth.sample_rate).lfo]
  /\ last' = Call("generate_sample", << >>, << >>)
  /\ calls' = calls + 1
  /\ UNCHANGED <<params, proc, outputs, written, rendered, nsets, twin, audio, ctl>>

NextPhase ==
  \/ \E pitch \in PhasePitches :
       calls % BlockLen = 0 /\ ProcessEvents(<<NoteOnEvent(pitch)>>)
  \/ \E noise \in NoiseValues : AdvancePhases(noise)

SpecPhase == Init /\ [][NextPhase]_vars

\* ------------------------------------------------------------------------
\* Properties
\* ------------------------------------------------------------------------
Stage == synth.envelope.stage
Level == synth.envelope.level

\* the step is a process_events call; Handled is the event it handled
IsEventStep == last'.call = "process_events" /\ rendered' = rendered /\ nsets' = nsets
Handled == last'.arg[1]
IsNoteOnStep  == IsEventStep /\ Handled.midi /\ Handled.data[1] = 144
IsNoteOffStep == IsEventStep /\ Handled.midi /\ Handled.data[1] = 128
\* the step renders one sample
IsRenderStep == rendered' = rendered + 1
\* the step is one call of Envelope::process in SpecEnvelope
IsEnvProcessStep == calls' = calls + 1

\* C1: a sample rendered while the gate (note_on) is false is written as
\* exactly 0 to every output channel, whatever the parameters and whatever
\* events were handled before.
C1_GateOffWritesZero ==
  [][(IsRenderStep /\ ~synth.note_on) =>
       \A ch \in 1 .. OutputCount : outputs'[ch] = Append(outputs[ch], F0_0)]_vars

\* a whole block of two samples rendered with the gate off, after a note-off
\* put the envelope in Release and a host write moved the cutoff
C1_Witness ==
  /\ ~synth.note_on
  /\ ~proc.active
  /\ \A ch \in 1 .. OutputCount : outputs[ch] = <<F0_0, F0_0>>
  /\ Stage = "Release"
  /\ params.filter_cutoff # SynthParams_default.filter_cutoff

\* C2: once a note-on has been handled note_on is true, and no later step
\* (note-off, other event, rendered sample, envelope transition, parameter
\* write) sets it back to false.
C2_GateStaysOn ==
  [][(IsNoteOnStep => synth'.note_on) /\ (synth.note_on => synth'.note_on)]_vars

\* after note-on, the matching note-off and a block of samples the envelope
\* is back in Idle at level 0 and the gate is still open
C2_Witness ==
  /\ synth.note_on
  /\ Stage = "Idle"
  /\ Level = F0_0
  /\ last.call = "process"
  /\ last.stage = "Release"
  /\ ~proc.active
  /\ rendered >= 1

\* C3: a note-off whose data1 differs from the stored note changes nothing
\* of the synth (envelope stage and level, note, gate, oscillators); a
\* note-off for the stored note is the one that puts the envelope in Release.
C3_OtherNoteOffIgnored ==
  [][/\ (IsNoteOffStep /\ Handled.data[2] # synth.note) => synth' = synth
     /\ (IsNoteOffStep /\ Handled.data[2] = synth.note) =>
          synth' = [synth EXCEPT !.envelope.stage = "Release"]]_vars

\* note 69 is sounding (its Attack has risen above 0) and the note-off just
\* handled was for note 0: the envelope is still in Attack
C3_Witness ==
  /\ last.call = "process_events"
  /\ last.arg = <<NoteOffEvent(0)>>
  /\ synth.note = 69
  /\ synth.note_on
  /\ Stage = "Attack"
  /\ F32Gt(Level, F0_0)

\* C4: a note-on handled in any envelope stage and at any level leaves the
\* envelope in Attack at level 0, stores data1 as the note and opens the gate.
C4_NoteOnRestarts ==
  [][IsNoteOnStep =>
       /\ synth'.envelope.stage = "Attack"
       /\ synth'.envelope.level = F0_0
       /\ synth'.note = Handled.data[2]
       /\ synth'.note_on]_vars

\* a note-on for note 0 that found the envelope of note 69 in Sustain
C4_Witness ==
  /\ last.call = "process_events"
  /\ last.arg = <<NoteOnEvent(0)>>
  /\ last.stage = "Sustain"
  /\ Stage = "Attack"
  /\ Level = F0_0
  /\ synth.note = 0
  /\ synth.note_on

\* C5: the envelope level is within [0, 1] in every reachable state.
C5_LevelInUnitRange ==
  F32Ge(Level, F0_0) /\ F32Le(Level, F1_0)

\* the sample that ends Attack: the level has been cut back to exactly 1.0
C5_Witness ==
  /\ Stage = "Decay"
  /\ Level = F1_0
  /\ rendered >= 1

\* the stage changes Envelope::process makes
ProcessMoves == {<<"Attack", "Decay">>, <<"Decay", "Sustain">>, <<"Release", "Idle">>}

F32ToInt(x) ==
  IF Expo(x) >= 0 THEN Mant(x) * Pow2(Expo(x)) ELSE Mant(x) \div Pow2(-Expo(x))

\* release * sample_rate calls divide the level by e; ln(0.5 / 0.001) < 7
ReleaseBound ==
  7 * F32ToInt(F32Mul(Envelope_new(F44100_0).release, F44100_0))

\* C7: once Release is entered from Sustain at level 0.5, every process call
\* strictly lowers the level, the envelope is in Idle at level 0 before
\* ReleaseBound calls, and process calls in Idle leave it in Idle at level 0.
C7_ReleaseReachesIdle ==
  /\ [][(IsEnvProcessStep /\ Stage = "Release") =>
          F32Lt(synth'.envelope.level, Level)]_vars
  /\ [](Stage = "Release" => Level # F0_0 /\ calls < ReleaseBound)
  /\ [](Stage = "Idle" => Level = F0_0)
  /\ [][(IsEnvProcessStep /\ Stage = "Idle") =>
          synth'.envelope.stage = "Idle" /\ synth'.envelope.level = F0_0]_vars

\* the process call that ended a Release started at 0.5
C7_Witness ==
  /\ Stage = "Idle"
  /\ Level = F0_0
  /\ last.call = "process"
  /\ last.stage = "Release"
  /\ calls > 0

\* attack * sample_rate = 441
AttackCalls == F32ToInt(F32Mul(Envelope_new(F44100_0).attack, F44100_0))

\* C8: after trigger from Idle the stage is Attack on every call until the
\* call that makes it Decay at level 1.0, and that call is at most the
\* 441st.
C8_AttackReachesPeak ==
  /\ [](Stage = "Attack" => calls < AttackCalls)
  /\ [][(IsEnvProcessStep /\ Stage = "Attack") =>
          \/ synth'.envelope.stage = "Attack"
          \/ synth'.envelope.stage = "Decay" /\ synth'.envelope.level = F1_0]_vars

\* the 441st call after trigger: Decay at level 1.0
C8_Witness ==
  /\ Stage = "Decay"
  /\ Level = F1_0
  /\ last.call = "process"
  /\ last.stage = "Attack"
  /\ calls = AttackCalls

\* 0.000001, the tolerance granted to a round trip
Tolerance == F32Div(F1_0, F32Mul(F1000_0, F1000_0))

\* C9 as stated: get_parameter(i) returns, up to rounding, the x in [0, 1]
\* last written to parameter i by set_parameter(i, x).
C9_RoundTrip ==
  (/\ last.call = "get_parameter"
   /\ last.arg \in 0 .. 5
   /\ written[last.arg] # << >>
   /\ F32Ge(written[last.arg][1], F0_0)
   /\ F32Le(written[last.arg][1], F1_0))
  => F32Le(Abs(F32Sub(last.ret, written[last.arg][1])), Tolerance)

\* the stored engineering-unit value of parameter i and the top of its range
Stored(i) ==
  CASE i = 0 -> params.osc1_freq
    [] i = 1 -> params.osc2_freq
    [] i = 2 -> params.filter_cutoff
    [] i = 3 -> params.filter_resonance
    [] i = 4 -> params.lfo_freq
    [] i = 5 -> params.lfo_amount
RangeTop(i) ==
  CASE i \in 0 .. 2 -> F20000_0
    [] i = 3 -> F1_0
    [] i = 4 -> F20_0
    [] i = 5 -> F2_0
InRange(i) == F32Ge(Stored(i), F0_0) /\ F32Le(Stored(i), RangeTop(i))

\* C10 as stated: after set_parameter(i, v), for any v, the stored value of
\* parameter i lies within its range.
C10_ClampedOnWrite ==
  \A i \in 0 .. 5 : written[i] # << >> => InRange(i)

\* C10 amended: set_parameter applies no clamp.  The stored value lies
\* within the range when v is in [0, 1], above it when v > 1 and below 0
\* when v < 0.
C10_InRangeForNormalized ==
  \A i \in 0 .. 5 :
    written[i] # << >> =>
      /\ (F32Ge(written[i][1], F0_0) /\ F32Le(written[i][1], F1_0)) => InRange(i)
      /\ F32Gt(written[i][1], F1_0) => F32Gt(Stored(i), RangeTop(i))
      /\ F32Lt(written[i][1], F0_0) => F32Lt(Stored(i), F0_0)

\* set_parameter(2, 1.5) has stored a cutoff of 30000 Hz
C10_Witness ==
  /\ written[2] = <<F1_5>>
  /\ params.filter_cutoff = F32Mul(F1_5, F20000_0)
  /\ F32Gt(params.filter_cutoff, F20000_0)

\* the values one complete set_parameter call can leave in a parameter, and
\* the value the parameter is constructed with
StorableCutoff ==
  {SynthParams_default.filter_cutoff} \cup {F32Mul(v, F20000_0) : v \in ThreadValues}
StorableAmount ==
  {SynthParams_default.lfo_amount} \cup {F32Mul(v, F2_0) : v \in ThreadValues}

\* C11: under every interleaving of the control thread's set_parameter calls
\* with the audio thread's loads, each loaded value is the parameter's
\* initial value or the value one whole set_parameter call stored; a load
\* the audio thread has come to is always enabled, whatever the control
\* thread is doing, and the store of the control thread inside
\* set_parameter is always enabled, whatever the audio thread is doing.
C11_AtomicNonBlocking ==
  /\ audio.filter_cutoff # << >> => audio.filter_cutoff[1] \in StorableCutoff
  /\ audio.lfo_amount # << >> => audio.lfo_amount[1] \in StorableAmount
  /\ (proc.active /\ synth.note_on /\ audio.pc # "filter") => ENABLED AudioLoad
  /\ ctl.pc = "store" => ENABLED SetStore

\* a write of the cutoff landed between the audio thread's load of the
\* cutoff and its load of the amount: the thread holds the initial cutoff
\* while the parameter already has the written one
C11_Witness ==
  /\ audio.pc = "filter"
  /\ audio.filter_cutoff = <<SynthParams_default.filter_cutoff>>
  /\ audio.lfo_amount = <<SynthParams_default.lfo_amount>>
  /\ params.filter_cutoff = F32Mul(F0_5, F20000_0)
  /\ ctl.pc = "idle"
  /\ nsets = 1

\* C12: filter.cutoff is within [20, 20000] in every reachable state,
\* whatever the control thread wrote to Filter Cutoff and LFO Amount and
\* wherever the writes landed among the samples.
C12_CutoffInRange ==
  /\ F32Ge(synth.filter.cutoff, F20_0)
  /\ F32Le(synth.filter.cutoff, F20000_0)

\* C13: handling a note-on never fails, for any data1 in 0..255: the i8
\* subtraction (pitch as i8) - 69 stays within the range of i8 and the event
\* completes.
C13_NoteOnNeverFails ==
  /\ ~Panicked
  /\ last.call = "process_events" =>
       \A i \in 1 .. Len(last.arg) : ~Overflows(last.arg[i])

\* the two instances were written the same values of Filter Resonance and
\* LFO Freq (and of Filter Cutoff and LFO Amount, which TwinSet never lets
\* differ): they differ at most in what was written to Osc1 Freq, Osc2 Freq
SameButOscFreq ==
  /\ twin.params.filter_resonance = params.filter_resonance
  /\ twin.params.lfo_freq = params.lfo_freq
  /\ twin.params.filter_cutoff = params.filter_cutoff
  /\ twin.params.lfo_amount = params.lfo_amount
\* they differ at most in what was written to Filter Resonance and LFO Freq
SameButResonanceLfoFreq ==
  /\ twin.params.osc1_freq = params.osc1_freq
  /\ twin.params.osc2_freq = params.osc2_freq
  /\ twin.params.filter_cutoff = params.filter_cutoff
  /\ twin.params.lfo_amount = params.lfo_amount

\* C14: two runs with the same events, sample counts, noise values and
\* writes to the other parameters, but different writes to parameters 0 and
\* 1, have the same oscillator frequencies, the same engine state and the
\* same output after every step.
C14_OscFreqParamsInert ==
  SameButOscFreq =>
    /\ \A i \in 1 .. 5 : twin.synth.oscillators[i].freq = synth.oscillators[i].freq
    /\ twin.synth = synth
    /\ twin.outputs = outputs

\* a block of two samples of note 69 has been rendered by two instances
\* whose Osc1 Freq parameters are 20000 Hz and 0 Hz
C14_Witness ==
  /\ SameButOscFreq
  /\ params.osc1_freq = F20000_0
  /\ twin.params.osc1_freq = F0_0
  /\ synth.note_on
  /\ synth.note = 69
  /\ rendered = 2
  /\ ~proc.active
  /\ Len(outputs[1]) = 2
  /\ outputs[1][2] # F0_0

\* C20: after any sequence of set_parameter calls, events and samples the
\* LFO's frequency is the 2.4 Hz and the filter's resonance the 0.5 they
\* were constructed with, and two runs that differ only in what was written
\* to the LFO Freq and Filter Resonance parameters have the same engine
\* state and the same output.
C20_LfoFreqResonanceInert ==
  /\ synth.lfo.freq = LFO_new.freq
  /\ synth.filter.resonance = LowPassFilter_new.resonance
  /\ twin.synth.lfo.freq = LFO_new.freq
  /\ twin.synth.filter.resonance = LowPassFilter_new.resonance
  /\ SameButResonanceLfoFreq => (twin.synth = synth /\ twin.outputs = outputs)

\* two samples of note 69 rendered after LFO Freq was written 20 Hz in one
\* instance and 0 Hz in the other
C20_Witness ==
  /\ SameButResonanceLfoFreq
  /\ params.lfo_freq = F20_0
  /\ twin.params.lfo_freq = F0_0
  /\ synth.lfo.freq = F2_4
  /\ synth.lfo.phase # F0_0
  /\ synth.note_on
  /\ rendered = 2
  /\ outputs[1] # <<F0_0, F0_0>>

\* 444.4 as binary32: the quotient 4444 / 10 rounded to nearest
F444_4 == F32Div(F32Add(F32Add(F32Mul(F4_0, F1000_0), F440_0), F4_0), F10_0)

\* C15: a note-on sets the frequency of oscillators 0 and 1 only, to f and
\* 1.01 * f for the played pitch (440 and 444.4 for pitch 69), and changes
\* nothing else of any oscillator; oscillators 2, 3 and 4 are at the 440 Hz
\* of their construction in every reachable state.
C15_NoteOnSetsTwoOscillators ==
  /\ [](\A i \in 3 .. 5 : synth.oscillators[i].freq = Oscillator_new("Sine").freq)
  /\ [][IsNoteOnStep =>
          /\ synth'.oscillators[1].freq = midi_pitch_to_freq(Handled.data[2])
          /\ synth'.oscillators[2].freq = F32Mul(midi_pitch_to_freq(Handled.data[2]), F1_01)
          /\ Handled.data[2] = 69 =>
               /\ synth'.oscillators[1].freq = F440_0
               /\ synth'.oscillators[2].freq = F444_4
          /\ \A i \in 1 .. 2 : synth'.oscillators[i] =
               [synth.oscillators[i] EXCEPT !.freq = synth'.oscillators[i].freq]
          /\ \A i \in 3 .. 5 : synth'.oscillators[i] = synth.oscillators[i]]_vars

\* note 69 after note 0 and two samples: oscillators 0 and 1 are at 440 and
\* 444.4 Hz, oscillator 2 has advanced and is at 440 Hz
C15_Witness ==
  /\ last.call = "process_events"
  /\ last.arg = <<NoteOnEvent(69)>>
  /\ synth.note = 69
  /\ rendered = 2
  /\ synth.oscillators[1].freq = F440_0
  /\ synth.oscillators[2].freq = F444_4
  /\ synth.oscillators[3].phase # F0_0
  /\ synth.oscillators[3].freq = F440_0

\* C16: in Sustain process() changes neither the level nor the stage: a
\* sample rendered in Sustain leaves the envelope in Sustain at level =
\* sustain, and the stage leaves Sustain only by a note-off for the stored
\* note (to Release) or by a note-on (to Attack).
C16_SustainHolds ==
  [][/\ (IsRenderStep /\ Stage = "Sustain") =>
          /\ synth'.envelope = synth.envelope
          /\ Level = synth.envelope.sustain
     /\ (Stage = "Sustain" /\ synth'.envelope.stage # "Sustain") =>
          \/ /\ IsNoteOffStep
             /\ Handled.data[2] = synth.note
             /\ synth'.envelope.stage = "Release"
          \/ /\ IsNoteOnStep
             /\ synth'.envelope.stage = "Attack"]_vars

\* note 69 held for 4853 samples: sample 4852 ended the Decay and sample
\* 4853 was rendered in Sustain, with no event since the note-on
C16_Witness ==
  /\ Stage = "Sustain"
  /\ Level = synth.envelope.sustain
  /\ synth.note = 69
  /\ rendered = 2
  /\ ~proc.active
  /\ last.call = "process"
  /\ last.stage = "Decay"

\* a phase accumulator is in [0, 1)
InUnitInterval(phase) == F32Ge(phase, F0_0) /\ F32Lt(phase, F1_0)

\* C17: the phase of every oscillator and of the LFO is in [0, 1) in every
\* reachable state, after any number of samples and any note-ons with
\* pitches up to 127.
C17_PhaseInUnitInterval ==
  /\ \A i \in 1 .. 5 : InUnitInterval(synth.oscillators[i].phase)
  /\ InUnitInterval(synth.lfo.phase)

\* the LFO has just wrapped (its phase is below one increment, more than one
\* call after the start) while note 127 follows note 69
C17_Witness ==
  /\ calls > BlockLen
  /\ F32Lt(synth.lfo.phase, F32Div(synth.lfo.freq, synth.sample_rate))
  /\ synth.note = 127
  /\ synth.oscillators[3].phase # synth.oscillators[1].phase
  /\ InUnitInterval(synth.oscillators[1].phase)

\* C18: a sample rendered while the gate is off changes nothing of the
\* engine: oscillator phases, envelope stage and level, LFO phase, filter
\* cutoff and the filter's y1, y2 are as before the sample.
C18_GateOffAdvancesNothing ==
  [][(IsRenderStep /\ ~synth.note_on) => synth' = synth]_vars

\* the first sample of a block rendered with the gate off: the envelope a
\* note-off put in Release is still there and the filter still has the
\* cutoff of its construction although the host has written 30000 Hz
C18_Witness ==
  /\ ~synth.note_on
  /\ proc.active
  /\ proc.sample_idx = 1
  /\ Stage = "Release"
  /\ params.filter_cutoff = F32Mul(F1_5, F20000_0)
  /\ synth.filter.cutoff = LowPassFilter_new.cutoff
  /\ synth.lfo.phase = F0_0

\* the envelope multiplies the voice by 0: Idle, or Release at level 0
Silent(env) == env.stage = "Idle" \/ (env.stage = "Release" /\ env.level = F0_0)

\* C19: a note-off for the note just switched on, with no sample rendered
\* between the two, leaves the envelope in Release at level 0; the first
\* sample rendered then moves it to Idle; the level process() returns is 0
\* on every sample until the next note-on, which is the only step that ends
\* this, and with the filter at rest every such sample is written as 0.
C19_UnplayedNoteIsSilent ==
  [][/\ (IsNoteOffStep /\ Handled.data[2] = synth.note /\ Stage = "Attack"
           /\ Level = F0_0) =>
          (synth'.envelope.stage = "Release" /\ synth'.envelope.level = F0_0)
     /\ (IsRenderStep /\ synth.note_on /\ Stage = "Release" /\ Level = F0_0) =>
          (synth'.envelope.stage = "Idle" /\ synth'.envelope.level = F0_0)
     /\ (IsRenderStep /\ Silent(synth.envelope)) =>
          /\ synth'.envelope.level = F0_0
          /\ Silent(synth'.envelope)
          /\ (synth.filter.y1 = F0_0 /\ synth.filter.y2 = F0_0) =>
               \A ch \in 1 .. OutputCount : outputs'[ch] = Append(outputs[ch], F0_0)
     /\ (Silent(synth.envelope) /\ ~Silent(synth'.envelope)) => IsNoteOnStep]_vars

\* note 69 switched on and off before the block: its two samples ran the
\* oscillators with the gate open and were written as 0, the first of them
\* having moved the envelope from Release to Idle
C19_Witness ==
  /\ synth.note_on
  /\ synth.note = 69
  /\ Stage = "Idle"
  /\ rendered = 2
  /\ ~proc.active
  /\ proc.samples = 2
  /\ outputs[1] = <<F0_0, F0_0>>
  /\ synth.oscillators[1].phase # F0_0
  /\ synth.filter.y1 = F0_0

====
